---- MODULE Spec2Model ----
(***************************************************************************)
(* OpLog (include/oplog.hh): per-CPU operation logs kept in a hash-indexed *)
(* cache of ways, eviction with deadlock avoidance, synchronize, the       *)
(* TSC-ordered logger (tsc_logged_object) and the wait-synchronize variant *)
(* (mfs_logged_object).                                                    *)
(*                                                                         *)
(* One thread runs on each CPU (a spinlock holder is not preempted), so a  *)
(* thread is named by its CPU and myid() is the thread's name.             *)
(***************************************************************************)
EXTENDS Integers, Sequences, FiniteSets, TLC

\* ------------------------------------------------------------ constants
CACHE_SLOTS == 4096

NCPU == 2

\* ------------------------------------------------------------ bounds
\* Operations pushed in one behaviour.
MaxOps == 2

\* get_logger calls in one behaviour.
MaxCalls == 3

\* Largest timestamp a caller passes or the clock reaches.
MaxTsc == 2

\* Loggers in pending_, and operations in each, when a flush is checked on
\* its own.
MaxLoggers == 3

MaxLen == 2

CPUs == 0 .. (NCPU - 1)

Threads == CPUs

NoThread == -1

\* nullptr in a way's tag
NoObj == 0

NoTsc == -1

\* Object identities (addresses).  The two addresses collide in hash_way.
Objects == {246720, 262144}

TscVals == 0 .. MaxTsc

\* ------------------------------------------------------------ hash_way
RECURSIVE Xor(_, _)
Xor(a, b) ==
  IF a = 0 THEN b
  ELSE IF b = 0 THEN a
  ELSE ((((a % 2) + (b % 2)) % 2) + (2 * Xor(a \div 2, b \div 2)))

Shr(a, k) == a \div (2 ^ k)

\* The upper shift of the source (>> 32) is zero for the addresses used here.
hash_way(obj) ==
  LET w0 == obj
      w1 == Xor(w0, Xor(Shr(w0, 20), Shr(w0, 12)))
      w2 == Xor(w1, Xor(Shr(w1, 7), Shr(w1, 4)))
  IN  w2 % CACHE_SLOTS

WayOf == [o \in Objects |-> hash_way(o)]

Ways == {WayOf[o] : o \in Objects}

\* ------------------------------------------------------------ state
VARIABLES
  obj_,          \* way tag:    [CPUs -> [Ways -> Objects \cup {NoObj}]]
  lock_,         \* way lock:   [CPUs -> [Ways -> Threads \cup {NoThread}]]
  logger_,       \* way logger: [CPUs -> [Ways -> Seq(op)]]  (tsc_logger::ops_)
  cpus_,         \* [Objects -> SUBSET CPUs]
  sync_lock_,    \* [Objects -> Threads \cup {NoThread}]
  pending_,      \* [Objects -> Seq(Seq(op))]
  mfs_start_tsc, \* [Objects -> [CPUs -> tsc]]
  mfs_end_tsc,   \* [Objects -> [CPUs -> tsc]]
  clock,         \* the time stamp counter
  applied,       \* [Objects -> Seq(op)]: the operations run(), in run order
  pc,            \* position of each thread
  self_,         \* the object (this) of the call a thread is in
  cur_obj,       \* get_logger's cur_obj while evicting
  scan,          \* the CPU a loop of synchronize, wait_synchronize or clear_loggers is at
  any,           \* the gather loop's flag
  wait_tsc,      \* wait_synchronize's argument (NoTsc in synchronize)
  start_tsc,     \* wait_synchronize's local start_tsc
  need_retry,    \* r_end.need_retry(): end_tsc was published since it was read
  mfs_op,        \* the metadata operation a writer is in: NoObj or its object
  op_tsc,        \* the least timestamp the writer's operation may still use
  op_pushed,     \* the writer's operation has been logged
  nops,          \* operations pushed so far on each CPU
  ncalls,        \* get_logger calls so far
  snap,          \* ids logged for self_ and not run when sync_lock_ was taken
  started,       \* ids of the operations in flight when their CPU was checked
  inflight,      \* ids of the operations in flight when the gather began
  epoch          \* per object: what the last synchronize call has seen

cache_vars == <<obj_, lock_, logger_>>

object_vars == <<cpus_, sync_lock_, pending_>>

mfs_vars == <<mfs_start_tsc, mfs_end_tsc>>

wait_vars == <<wait_tsc, start_tsc, need_retry>>

writer_vars == <<mfs_op, op_tsc, op_pushed>>

ghost_vars == <<snap, started, inflight, epoch>>

sync_vars == <<scan, any>>

count_vars == <<nops, ncalls>>

vars == <<obj_, lock_, logger_, cpus_, sync_lock_, pending_, mfs_start_tsc,
          mfs_end_tsc, clock, applied, pc, self_, cur_obj, scan, any,
          wait_tsc, start_tsc, need_retry, mfs_op, op_tsc, op_pushed, nops,
          ncalls, snap, started, inflight, epoch>>

\* ------------------------------------------------------------ tsc_logger
Range(s) == {s[i] : i \in 1 .. Len(s)}

Ids(s) == {s[i].id : i \in 1 .. Len(s)}

RECURSIVE Sum(_, _)
Sum(f, S) ==
  IF S = {} THEN 0
  ELSE LET x == CHOOSE x \in S : TRUE IN f[x] + Sum(f, S \ {x})

total_ops == Sum(nops, CPUs)

compare_tsc(op1, op2) == op1.tsc < op2.tsc

\* std::is_sorted with compare_tsc
is_sorted(s) == \A i \in 1 .. Len(s) - 1 : ~compare_tsc(s[i + 1], s[i])

\* The orders in which a set of operations is sorted by compare_tsc.
RECURSIVE sorted_orders(_)
sorted_orders(S) ==
  IF S = {} THEN {<<>>}
  ELSE UNION {{<<x>> \o r : r \in sorted_orders(S \ {x})} :
                x \in {y \in S : \A z \in S : ~compare_tsc(z, y)}}

\* Mutant of sort_ops: the logger is left in push order.
sort_ops_unsorted(ops) == {ops}

\* std::sort with compare_tsc: a sorted permutation; the order of operations
\* with equal timestamps is whatever the library produces.
sort_ops(ops) == sorted_orders(Range(ops))

\* The results of sorting every logger of a pending_ vector.
RECURSIVE sort_all(_)
sort_all(pend) ==
  IF pend = <<>> THEN {<<>>}
  ELSE {<<h>> \o r : h \in sort_ops(Head(pend)), r \in sort_all(Tail(pend))}

\* The number of operations at the front of ops with a timestamp less than
\* max_tsc (the distance of the returned iterator from begin()).
RECURSIVE ops_before_max_tsc(_, _)
ops_before_max_tsc(ops, max_tsc) ==
  IF ops = <<>> \/ Head(ops).tsc >= max_tsc THEN 0
  ELSE 1 + ops_before_max_tsc(Tail(ops), max_tsc)

\* The heap merge of flush_finish: repeatedly take a cursor whose head has
\* the least timestamp (priority_queue with compare a > b).
RECURSIVE heap_merge(_)
heap_merge(ls) ==
  LET live == {i \in 1 .. Len(ls) : ls[i] # <<>>}
  IN  IF live = {} THEN {<<>>}
      ELSE LET tops == {i \in live :
                          \A j \in live : ~(Head(ls[i]).tsc > Head(ls[j]).tsc)}
           IN  UNION {{<<Head(ls[i])>> \o r :
                          r \in heap_merge([ls EXCEPT ![i] = Tail(@)])} : i \in tops}

\* ------------------------------------------------------------ tsc_logged_object
\* flush_logger: pending_.emplace_back(std::move(*l)); l->reset()
flush_logger(pend, l) == Append(pend, l)

\* Mutant of flush_finish: the merged operations are run and pending_ is not
\* cleared.
flush_finish_noclear(pend) ==
  IF \A i \in 1 .. Len(pend) : pend[i] = <<>> THEN {<<(<<>>), pend>>}
  ELSE {<<m, pend>> : m \in UNION {heap_merge(s) : s \in sort_all(pend)}}

\* flush_finish: the possible <<merged_ops, pending_ afterwards>>.  Only the
\* loggers that hold operations are sorted and merged; when none does the
\* function returns before pending_.clear().
flush_finish(pend) ==
  IF \A i \in 1 .. Len(pend) : pend[i] = <<>> THEN {<<(<<>>), pend>>}
  ELSE {<<m, (<<>>)>> : m \in UNION {heap_merge(s) : s \in sort_all(pend)}}

\* ------------------------------------------------------------ mfs_logged_object
\* Mutant of flush_finish_max_timestamp: the cursors run to the end of each
\* logger, as in flush_finish.
flush_finish_all(pend, max_tsc) == flush_finish(pend)

\* Mutant of flush_finish_max_timestamp: the merged operations are run and
\* not erased from their loggers.
flush_finish_max_timestamp_noerase(pend, max_tsc) ==
  IF pend = <<>> THEN {<<(<<>>), pend>>}
  ELSE UNION {
    LET n == [i \in 1 .. Len(s) |-> ops_before_max_tsc(s[i], max_tsc)]
        heads == [i \in 1 .. Len(s) |-> SubSeq(s[i], 1, n[i])]
    IN  IF \A i \in 1 .. Len(s) : n[i] = 0 THEN {<<(<<>>), s>>}
        ELSE {<<m, s>> : m \in heap_merge(heads)}
    : s \in sort_all(pend)}

\* flush_finish_max_timestamp: the possible <<merged_ops, pending_ afterwards>>.
\* Every logger is sorted in place; the cursors end at ops_before_max_tsc;
\* the merged operations are erased and the loggers left empty are removed,
\* unless no logger had an operation before max_tsc.
flush_finish_max_timestamp(pend, max_tsc) ==
  IF pend = <<>> THEN {<<(<<>>), pend>>}
  ELSE UNION {
    LET n == [i \in 1 .. Len(s) |-> ops_before_max_tsc(s[i], max_tsc)]
        heads == [i \in 1 .. Len(s) |-> SubSeq(s[i], 1, n[i])]
        rest == [i \in 1 .. Len(s) |-> SubSeq(s[i], n[i] + 1, Len(s[i]))]
    IN  IF \A i \in 1 .. Len(s) : n[i] = 0 THEN {<<(<<>>), s>>}
        ELSE {<<m, SelectSeq(rest, LAMBDA l : l # <<>>)>> : m \in heap_merge(heads)}
    : s \in sort_all(pend)}

\* ------------------------------------------------------------ Init
InitProgram ==
  /\ obj_ = [c \in CPUs |-> [w \in Ways |-> NoObj]]
  /\ lock_ = [c \in CPUs |-> [w \in Ways |-> NoThread]]
  /\ logger_ = [c \in CPUs |-> [w \in Ways |-> <<>>]]
  /\ cpus_ = [o \in Objects |-> {}]
  /\ sync_lock_ = [o \in Objects |-> NoThread]
  /\ pending_ = [o \in Objects |-> <<>>]
  /\ mfs_start_tsc = [o \in Objects |-> [c \in CPUs |-> 0]]
  /\ mfs_end_tsc = [o \in Objects |-> [c \in CPUs |-> 0]]
  /\ clock = 0
  /\ applied = [o \in Objects |-> <<>>]
  /\ pc = [t \in Threads |-> "idle"]
  /\ self_ = [t \in Threads |-> NoObj]
  /\ cur_obj = [t \in Threads |-> NoObj]
  /\ scan = [t \in Threads |-> 0]
  /\ any = [t \in Threads |-> FALSE]
  /\ wait_tsc = [t \in Threads |-> NoTsc]
  /\ start_tsc = [t \in Threads |-> 0]
  /\ need_retry = [t \in Threads |-> FALSE]
  /\ mfs_op = [t \in Threads |-> NoObj]
  /\ op_tsc = [t \in Threads |-> NoTsc]
  /\ op_pushed = [t \in Threads |-> FALSE]
  /\ nops = [c \in CPUs |-> 0]
  /\ ncalls = 0
  /\ snap = [t \in Threads |-> {}]
  /\ started = [t \in Threads |-> {}]
  /\ inflight = [t \in Threads |-> {}]

\* No call is recorded.
Init ==
  /\ InitProgram
  /\ epoch = [o \in Objects |-> "off"]

\* ------------------------------------------------------------ history of calls
\* A get_logger call on o that has not returned its handle yet.
in_get_logger(o) ==
  {t \in Threads :
     self_[t] = o /\ pc[t] \in {"gl_lock", "gl_tag", "gl_evict", "gl_store"}}

\* What epoch[o] records.  "off": the calls on o are not recorded.  "none":
\* get_logger was called on o, or o was evicted from a way, after the last
\* synchronize(o) began.  "first": a synchronize(o) is running and none of
\* that happened since it took the sync lock; "first_busy": the same, but a
\* get_logger on o was in progress when it took the lock.  "clean" and
\* "busy": such a call returned.  "second" and "second_busy": the next
\* synchronize(o) is running.
epoch_at_writer(o) == IF epoch[o] = "off" THEN "off" ELSE "none"

epoch_at_call(o) ==
  CASE epoch[o] = "off" -> "off"
    [] epoch[o] = "clean" -> "second"
    [] epoch[o] = "busy" -> "second_busy"
    [] OTHER -> IF in_get_logger(o) = {} THEN "first" ELSE "first_busy"

epoch_at_return(o) ==
  CASE epoch[o] \in {"first", "second"} -> "clean"
    [] epoch[o] \in {"first_busy", "second_busy"} -> "busy"
    [] OTHER -> epoch[o]

\* ------------------------------------------------------------ get_logger
\* Mutant of way_lock_guard: the lock is taken without waiting for it.
way_lock_guard_nowait(t, c, o) ==
  lock_' = [lock_ EXCEPT ![c][WayOf[o]] = t]

\* way->lock_.guard() by thread t on the way of object o in CPU c's cache:
\* a spinlock, taken when it is free.
way_lock_guard(t, c, o) ==
  /\ lock_[c][WayOf[o]] = NoThread
  /\ lock_' = [lock_ EXCEPT ![c][WayOf[o]] = t]

\* A writer on CPU t calls get_logger and takes the way lock.  A writer that
\* is in a metadata operation logs that operation, once.
get_logger_call(t, o) ==
  /\ pc[t] = "idle"
  /\ ncalls < MaxCalls
  /\ mfs_op[t] # NoObj => (mfs_op[t] = o /\ ~op_pushed[t])
  /\ way_lock_guard(t, t, o)
  /\ pc' = [pc EXCEPT ![t] = "gl_tag"]
  /\ self_' = [self_ EXCEPT ![t] = o]
  /\ ncalls' = ncalls + 1
  /\ epoch' = [epoch EXCEPT ![o] = epoch_at_writer(o)]
  /\ UNCHANGED <<obj_, logger_, object_vars, mfs_vars, clock, applied,
                 cur_obj, sync_vars, wait_vars, writer_vars, nops, snap,
                 started, inflight>>

\* back_out: the way lock is taken again after a failed try_guard.
get_logger_lock(t) ==
  /\ pc[t] = "gl_lock"
  /\ way_lock_guard(t, t, self_[t])
  /\ pc' = [pc EXCEPT ![t] = "gl_tag"]
  /\ UNCHANGED <<obj_, logger_, object_vars, mfs_vars, clock, applied, self_,
                 cur_obj, sync_vars, wait_vars, writer_vars, count_vars,
                 ghost_vars>>

\* Mutant of get_logger_hit: the CPU bit is not set.
get_logger_hit_nobit(t) ==
  LET o == self_[t]
      w == WayOf[o]
  IN  /\ pc[t] = "gl_tag"
      /\ obj_[t][w] \in {o, NoObj}
      /\ obj_' = [obj_ EXCEPT ![t][w] = o]
      /\ pc' = [pc EXCEPT ![t] = "has_logger"]
      /\ UNCHANGED <<lock_, logger_, object_vars, mfs_vars, clock, applied,
                     self_, cur_obj, sync_vars, wait_vars, writer_vars,
                     count_vars, ghost_vars>>

\* The tag is this object or empty: tag the way, set the CPU bit, return.
get_logger_hit(t) ==
  LET o == self_[t]
      w == WayOf[o]
  IN  /\ pc[t] = "gl_tag"
      /\ obj_[t][w] \in {o, NoObj}
      /\ obj_' = [obj_ EXCEPT ![t][w] = o]
      /\ cpus_' = [cpus_ EXCEPT ![o] = @ \cup {t}]
      /\ pc' = [pc EXCEPT ![t] = "has_logger"]
      /\ UNCHANGED <<lock_, logger_, sync_lock_, pending_, mfs_vars, clock,
                     applied, self_, cur_obj, sync_vars, wait_vars,
                     writer_vars, count_vars, ghost_vars>>

\* Mutant of try_guard: the eviction goes on whoever holds the sync lock.
try_guard_always(t, cur) == TRUE

\* cur_obj->sync_lock_.try_guard()
try_guard(t, cur) == sync_lock_[cur] = NoThread

\* Mutant of get_logger_try: sync_lock_.guard() instead of try_guard(), which
\* waits for the sync lock with the way lock held.
get_logger_try_blocking(t) ==
  LET o == self_[t]
      w == WayOf[o]
      cur == obj_[t][w]
  IN  /\ pc[t] = "gl_tag"
      /\ cur \notin {o, NoObj}
      /\ sync_lock_[cur] = NoThread
      /\ sync_lock_' = [sync_lock_ EXCEPT ![cur] = t]
      /\ cur_obj' = [cur_obj EXCEPT ![t] = cur]
      /\ pc' = [pc EXCEPT ![t] = "gl_evict"]
      /\ UNCHANGED <<cache_vars, cpus_, pending_, mfs_vars, clock, applied,
                     self_, sync_vars, wait_vars, writer_vars, count_vars,
                     ghost_vars>>

\* Another object is tagged: try_guard on its sync lock; on failure release
\* the way lock (goto back_out leaves guard's scope) and start again.
get_logger_try(t) ==
  LET o == self_[t]
      w == WayOf[o]
      cur == obj_[t][w]
  IN  /\ pc[t] = "gl_tag"
      /\ cur \notin {o, NoObj}
      /\ IF try_guard(t, cur)
         THEN /\ sync_lock_' = [sync_lock_ EXCEPT ![cur] = t]
              /\ cur_obj' = [cur_obj EXCEPT ![t] = cur]
              /\ pc' = [pc EXCEPT ![t] = "gl_evict"]
              /\ UNCHANGED lock_
         ELSE /\ lock_' = [lock_ EXCEPT ![t][w] = NoThread]
              /\ pc' = [pc EXCEPT ![t] = "gl_lock"]
              /\ UNCHANGED <<sync_lock_, cur_obj>>
      /\ UNCHANGED <<obj_, logger_, cpus_, pending_, mfs_vars, clock, applied,
                     self_, sync_vars, wait_vars, writer_vars, count_vars,
                     ghost_vars>>

\* Mutant of get_logger_evict: the way is tagged anew without flushing the
\* evicted object's logger.
get_logger_evict_noflush(t) ==
  LET o == self_[t]
      w == WayOf[o]
      cur == cur_obj[t]
  IN  /\ pc[t] = "gl_evict"
      /\ cpus_' = [cpus_ EXCEPT ![cur] = @ \ {t}, ![o] = @ \cup {t}]
      /\ sync_lock_' = [sync_lock_ EXCEPT ![cur] = NoThread]
      /\ obj_' = [obj_ EXCEPT ![t][w] = o]
      /\ cur_obj' = [cur_obj EXCEPT ![t] = NoObj]
      /\ pc' = [pc EXCEPT ![t] = "has_logger"]
      /\ epoch' = [epoch EXCEPT ![cur] = epoch_at_writer(cur)]
      /\ UNCHANGED <<lock_, logger_, pending_, mfs_vars, clock, applied,
                     self_, sync_vars, wait_vars, writer_vars, count_vars,
                     snap, started, inflight>>

\* Evict: cur_obj->flush_logger, cur_obj->cpus_.atomic_reset(id), drop the
\* sync guard, tag the way, set the CPU bit, return.
get_logger_evict(t) ==
  LET o == self_[t]
      w == WayOf[o]
      cur == cur_obj[t]
  IN  /\ pc[t] = "gl_evict"
      /\ pending_' = [pending_ EXCEPT ![cur] = flush_logger(@, logger_[t][w])]
      /\ logger_' = [logger_ EXCEPT ![t][w] = <<>>]
      /\ cpus_' = [cpus_ EXCEPT ![cur] = @ \ {t}, ![o] = @ \cup {t}]
      /\ sync_lock_' = [sync_lock_ EXCEPT ![cur] = NoThread]
      /\ obj_' = [obj_ EXCEPT ![t][w] = o]
      /\ cur_obj' = [cur_obj EXCEPT ![t] = NoObj]
      /\ pc' = [pc EXCEPT ![t] = "has_logger"]
      /\ epoch' = [epoch EXCEPT ![cur] = epoch_at_writer(cur)]
      /\ UNCHANGED <<lock_, mfs_vars, clock, applied, self_, sync_vars,
                     wait_vars, writer_vars, count_vars, snap, started,
                     inflight>>

\* Mutant of get_logger_evict_flush: the evicted object's CPU bit stays set.
get_logger_evict_keepbit(t) ==
  LET w == WayOf[self_[t]]
      cur == cur_obj[t]
  IN  /\ pc[t] = "gl_evict"
      /\ pending_' = [pending_ EXCEPT ![cur] = flush_logger(@, logger_[t][w])]
      /\ logger_' = [logger_ EXCEPT ![t][w] = <<>>]
      /\ sync_lock_' = [sync_lock_ EXCEPT ![cur] = NoThread]
      /\ cur_obj' = [cur_obj EXCEPT ![t] = NoObj]
      /\ pc' = [pc EXCEPT ![t] = "gl_store"]
      /\ epoch' = [epoch EXCEPT ![cur] = epoch_at_writer(cur)]
      /\ UNCHANGED <<obj_, lock_, cpus_, mfs_vars, clock, applied, self_,
                     sync_vars, wait_vars, writer_vars, count_vars, snap,
                     started, inflight>>

\* The eviction in two steps.  First cur_obj->flush_logger,
\* cur_obj->cpus_.atomic_reset(id), and sync_guard ends with its block, before
\* the tag is stored.
get_logger_evict_flush(t) ==
  LET w == WayOf[self_[t]]
      cur == cur_obj[t]
  IN  /\ pc[t] = "gl_evict"
      /\ pending_' = [pending_ EXCEPT ![cur] = flush_logger(@, logger_[t][w])]
      /\ logger_' = [logger_ EXCEPT ![t][w] = <<>>]
      /\ cpus_' = [cpus_ EXCEPT ![cur] = @ \ {t}]
      /\ sync_lock_' = [sync_lock_ EXCEPT ![cur] = NoThread]
      /\ cur_obj' = [cur_obj EXCEPT ![t] = NoObj]
      /\ pc' = [pc EXCEPT ![t] = "gl_store"]
      /\ epoch' = [epoch EXCEPT ![cur] = epoch_at_writer(cur)]
      /\ UNCHANGED <<obj_, lock_, mfs_vars, clock, applied, self_, sync_vars,
                     wait_vars, writer_vars, count_vars, snap, started,
                     inflight>>

\* Then my_way->obj_.store(this), cpus_.atomic_set(id), return.
get_logger_store(t) ==
  LET o == self_[t]
      w == WayOf[o]
  IN  /\ pc[t] = "gl_store"
      /\ obj_' = [obj_ EXCEPT ![t][w] = o]
      /\ cpus_' = [cpus_ EXCEPT ![o] = @ \cup {t}]
      /\ pc' = [pc EXCEPT ![t] = "has_logger"]
      /\ UNCHANGED <<lock_, logger_, sync_lock_, pending_, mfs_vars, clock,
                     applied, self_, cur_obj, sync_vars, wait_vars,
                     writer_vars, count_vars, ghost_vars>>

\* ops_.push_back(op(tsc, cb)) through the handle.  The id <<c, k>> names the
\* k-th operation pushed on CPU c.  A writer in a metadata operation logs it
\* with a timestamp at or after the operation's start.
push_back(t, tsc) ==
  LET o == self_[t]
      w == WayOf[o]
  IN  /\ pc[t] = "has_logger"
      /\ total_ops < MaxOps
      /\ mfs_op[t] # NoObj => (~op_pushed[t] /\ tsc >= op_tsc[t])
      /\ logger_' = [logger_ EXCEPT ![t][w] =
                       Append(@, [id |-> <<t, nops[t] + 1>>, tsc |-> tsc,
                                  obj |-> o])]
      /\ nops' = [nops EXCEPT ![t] = @ + 1]
      /\ IF mfs_op[t] # NoObj
         THEN /\ op_tsc' = [op_tsc EXCEPT ![t] = tsc]
              /\ op_pushed' = [op_pushed EXCEPT ![t] = TRUE]
         ELSE UNCHANGED <<op_tsc, op_pushed>>
      /\ UNCHANGED <<obj_, lock_, object_vars, mfs_vars, applied, pc, self_,
                     cur_obj, sync_vars, wait_vars, mfs_op, ncalls, ghost_vars>>

\* logger->push_with_tsc(cb): the caller supplies the timestamp.
push_with_tsc(t, tsc) ==
  /\ push_back(t, tsc)
  /\ UNCHANGED clock

\* Mutant of push: the timestamp was read before the way lock was taken.
push_stale(t) ==
  /\ \E tsc \in 0 .. clock : push_back(t, tsc)
  /\ UNCHANGED clock

\* logger->push(cb): the timestamp is read from the counter, under the way
\* lock.
push(t) ==
  /\ push_back(t, clock)
  /\ UNCHANGED clock

\* The time stamp counter advances.
tick ==
  /\ clock < MaxTsc
  /\ clock' = clock + 1
  /\ UNCHANGED <<cache_vars, object_vars, mfs_vars, applied, pc, self_,
                 cur_obj, sync_vars, wait_vars, writer_vars, count_vars,
                 ghost_vars>>

\* Mutant of release_logger: the handle goes away and the way lock stays
\* taken.
release_logger_locked(t) ==
  /\ pc[t] = "has_logger"
  /\ mfs_op[t] # NoObj => op_pushed[t]
  /\ pc' = [pc EXCEPT ![t] = "idle"]
  /\ self_' = [self_ EXCEPT ![t] = NoObj]
  /\ UNCHANGED <<cache_vars, object_vars, mfs_vars, clock, applied, cur_obj,
                 sync_vars, wait_vars, writer_vars, count_vars, ghost_vars>>

\* The locked_logger goes out of scope: the way lock is released.
release_logger(t) ==
  LET w == WayOf[self_[t]]
  IN  /\ pc[t] = "has_logger"
      /\ mfs_op[t] # NoObj => op_pushed[t]
      /\ lock_' = [lock_ EXCEPT ![t][w] = NoThread]
      /\ pc' = [pc EXCEPT ![t] = "idle"]
      /\ self_' = [self_ EXCEPT ![t] = NoObj]
      /\ UNCHANGED <<obj_, logger_, object_vars, mfs_vars, clock, applied,
                     cur_obj, sync_vars, wait_vars, writer_vars, count_vars,
                     ghost_vars>>

\* ------------------------------------------------------------ synchronize
\* The operations of o that are logged (in a way logger or in a pending
\* logger) and not run yet.
logged_ops(o) ==
  LET in_ways == UNION {Range(logger_[c][w]) : c \in CPUs, w \in Ways}
      in_pending == UNION {UNION {Range(pending_[p][i]) :
                                    i \in 1 .. Len(pending_[p])} : p \in Objects}
  IN  {op.id : op \in {x \in in_ways \cup in_pending : x.obj = o}}

\* The position of the gather loop after CPU c: the next CPU, or, after the
\* last CPU of a scan that flushed something, the first CPU of a new scan.
next_scan(c, flushed) ==
  IF c + 1 = NCPU /\ flushed THEN <<0, FALSE>> ELSE <<c + 1, flushed>>

\* synchronize(): auto guard = sync_lock_.guard()
synchronize_call(t, o) ==
  /\ pc[t] = "idle"
  /\ mfs_op[t] = NoObj
  /\ sync_lock_[o] = NoThread
  /\ sync_lock_' = [sync_lock_ EXCEPT ![o] = t]
  /\ snap' = [snap EXCEPT ![t] = logged_ops(o)]
  /\ epoch' = [epoch EXCEPT ![o] = epoch_at_call(o)]
  /\ pc' = [pc EXCEPT ![t] = "sy_scan"]
  /\ self_' = [self_ EXCEPT ![t] = o]
  /\ UNCHANGED <<cache_vars, cpus_, pending_, mfs_vars, clock, applied,
                 cur_obj, sync_vars, wait_vars, writer_vars, count_vars,
                 started, inflight>>

\* Mutant of synchronize_skip: the loop ends at the first clear bit.
synchronize_skip_all(t) ==
  /\ pc[t] = "sy_scan"
  /\ scan[t] < NCPU
  /\ scan[t] \notin cpus_[self_[t]]
  /\ scan' = [scan EXCEPT ![t] = NCPU]
  /\ any' = [any EXCEPT ![t] = FALSE]
  /\ UNCHANGED <<cache_vars, object_vars, mfs_vars, clock, applied, pc,
                 self_, cur_obj, wait_vars, writer_vars, count_vars,
                 ghost_vars>>

\* for (auto cpu : cpus_): the bit of the next CPU is clear.
synchronize_skip(t) ==
  LET o == self_[t]
      n == next_scan(scan[t], any[t])
  IN  /\ pc[t] = "sy_scan"
      /\ scan[t] < NCPU
      /\ scan[t] \notin cpus_[o]
      /\ scan' = [scan EXCEPT ![t] = n[1]]
      /\ any' = [any EXCEPT ![t] = n[2]]
      /\ UNCHANGED <<cache_vars, object_vars, mfs_vars, clock, applied, pc,
                     self_, cur_obj, wait_vars, writer_vars, count_vars,
                     ghost_vars>>

\* The bit is set: auto way_guard = way->lock_.guard()
synchronize_way(t) ==
  /\ pc[t] = "sy_scan"
  /\ scan[t] < NCPU
  /\ scan[t] \in cpus_[self_[t]]
  /\ way_lock_guard(t, scan[t], self_[t])
  /\ pc' = [pc EXCEPT ![t] = "sy_flush"]
  /\ UNCHANGED <<obj_, logger_, object_vars, mfs_vars, clock, applied, self_,
                 cur_obj, sync_vars, wait_vars, writer_vars, count_vars,
                 ghost_vars>>

\* flush_logger(&way->logger_); cpus_.atomic_reset(cpu); any = true; the way
\* guard ends with the loop body.
synchronize_flush(t) ==
  LET o == self_[t]
      w == WayOf[o]
      c == scan[t]
      n == next_scan(c, TRUE)
  IN  /\ pc[t] = "sy_flush"
      /\ pending_' = [pending_ EXCEPT ![o] = flush_logger(@, logger_[c][w])]
      /\ logger_' = [logger_ EXCEPT ![c][w] = <<>>]
      /\ cpus_' = [cpus_ EXCEPT ![o] = @ \ {c}]
      /\ lock_' = [lock_ EXCEPT ![c][w] = NoThread]
      /\ scan' = [scan EXCEPT ![t] = n[1]]
      /\ any' = [any EXCEPT ![t] = n[2]]
      /\ pc' = [pc EXCEPT ![t] = "sy_scan"]
      /\ UNCHANGED <<obj_, sync_lock_, mfs_vars, clock, applied, self_,
                     cur_obj, wait_vars, writer_vars, count_vars, ghost_vars>>

\* A scan found no bit set: flush_finish(); return std::move(guard)
synchronize_finish(t) ==
  LET o == self_[t]
  IN  /\ pc[t] = "sy_scan"
      /\ scan[t] = NCPU
      /\ wait_tsc[t] = NoTsc
      /\ \E r \in flush_finish(pending_[o]) :
           /\ applied' = [applied EXCEPT ![o] = @ \o r[1]]
           /\ pending_' = [pending_ EXCEPT ![o] = r[2]]
      /\ scan' = [scan EXCEPT ![t] = 0]
      /\ pc' = [pc EXCEPT ![t] = "sy_held"]
      /\ epoch' = [epoch EXCEPT ![o] = epoch_at_return(o)]
      /\ UNCHANGED <<cache_vars, cpus_, sync_lock_, mfs_vars, clock, self_,
                     cur_obj, any, wait_vars, writer_vars, count_vars,
                     snap, started, inflight>>

\* The caller lets go of the guard synchronize or wait_synchronize returned.
sync_unlock(t) ==
  LET o == self_[t]
  IN  /\ pc[t] = "sy_held"
      /\ sync_lock_' = [sync_lock_ EXCEPT ![o] = NoThread]
      /\ snap' = [snap EXCEPT ![t] = {}]
      /\ started' = [started EXCEPT ![t] = {}]
      /\ inflight' = [inflight EXCEPT ![t] = {}]
      /\ wait_tsc' = [wait_tsc EXCEPT ![t] = NoTsc]
      /\ self_' = [self_ EXCEPT ![t] = NoObj]
      /\ pc' = [pc EXCEPT ![t] = "idle"]
      /\ UNCHANGED <<cache_vars, cpus_, pending_, mfs_vars, clock, applied,
                     cur_obj, sync_vars, start_tsc, need_retry, writer_vars,
                     count_vars, epoch>>

\* get_logger called by a thread that still holds the guard synchronize
\* returned for another object: the way lock is taken as in any get_logger,
\* and the sync lock stays with the caller.
get_logger_call_held(t, o) ==
  /\ pc[t] = "sy_held"
  /\ o # self_[t]
  /\ ncalls < MaxCalls
  /\ way_lock_guard(t, t, o)
  /\ pc' = [pc EXCEPT ![t] = "gl_tag"]
  /\ self_' = [self_ EXCEPT ![t] = o]
  /\ ncalls' = ncalls + 1
  /\ epoch' = [epoch EXCEPT ![o] = epoch_at_writer(o)]
  /\ UNCHANGED <<obj_, logger_, object_vars, mfs_vars, clock, applied,
                 cur_obj, sync_vars, wait_vars, writer_vars, nops, snap,
                 started, inflight>>

\* The guard a thread kept across a get_logger goes out of scope.
guard_release(t, o) ==
  /\ pc[t] = "idle"
  /\ sync_lock_[o] = t
  /\ sync_lock_' = [sync_lock_ EXCEPT ![o] = NoThread]
  /\ snap' = [snap EXCEPT ![t] = {}]
  /\ UNCHANGED <<cache_vars, cpus_, pending_, mfs_vars, clock, applied, pc,
                 self_, cur_obj, sync_vars, wait_vars, writer_vars,
                 count_vars, started, inflight, epoch>>

\* ------------------------------------------------------------ update_*_tsc
\* Metadata operations begun and not logged yet.
unlogged == Cardinality({t \in Threads : mfs_op[t] # NoObj /\ ~op_pushed[t]})

\* A writer on CPU t begins a metadata operation on o:
\* update_start_tsc(cpu, start_tsc).  The timestamps of a CPU increase: s
\* was read after the end_tsc of the CPU's last operation.
update_start_tsc(t, o, s) ==
  /\ pc[t] = "idle"
  /\ mfs_op[t] = NoObj
  /\ s > mfs_end_tsc[o][t]
  /\ total_ops + unlogged < MaxOps
  /\ ncalls + unlogged < MaxCalls
  /\ mfs_start_tsc' = [mfs_start_tsc EXCEPT ![o][t] = s]
  /\ mfs_op' = [mfs_op EXCEPT ![t] = o]
  /\ op_tsc' = [op_tsc EXCEPT ![t] = s]
  /\ UNCHANGED <<cache_vars, object_vars, mfs_end_tsc, clock, applied, pc,
                 self_, cur_obj, sync_vars, wait_vars, op_pushed, count_vars,
                 ghost_vars>>

\* seqcount: a write of mfs_end_tsc[c] of o makes need_retry() true for every
\* reader that holds a read of it.
seq_write_end(o, c) ==
  need_retry' = [u \in Threads |->
                   need_retry[u]
                   \/ (pc[u] = "ws_wait" /\ self_[u] = o /\ scan[u] = c)]

\* The writer's operation is logged and ends: update_end_tsc(cpu, end_tsc),
\* the last thing the operation does.
update_end_tsc(t, e) ==
  LET o == mfs_op[t]
  IN  /\ pc[t] = "idle"
      /\ o # NoObj
      /\ op_pushed[t]
      /\ e >= op_tsc[t]
      /\ mfs_end_tsc' = [mfs_end_tsc EXCEPT ![o][t] = e]
      /\ seq_write_end(o, t)
      /\ mfs_op' = [mfs_op EXCEPT ![t] = NoObj]
      /\ op_tsc' = [op_tsc EXCEPT ![t] = NoTsc]
      /\ op_pushed' = [op_pushed EXCEPT ![t] = FALSE]
      /\ UNCHANGED <<cache_vars, object_vars, mfs_start_tsc, clock, applied,
                     pc, self_, cur_obj, sync_vars, wait_tsc, start_tsc,
                     count_vars, ghost_vars>>

\* ------------------------------------------------------------ wait_synchronize
\* The id of the operation of the metadata operation CPU c is in on o, if
\* any: the one it has logged, or the next one it pushes.
flight_ids(o, c) ==
  IF mfs_op[c] # o THEN {}
  ELSE IF op_pushed[c] THEN {<<c, nops[c]>>}
  ELSE {<<c, nops[c] + 1>>}

\* wait_synchronize(wait_tsc): auto guard = sync_lock_.guard()
wait_synchronize_call(t, o, T) ==
  /\ pc[t] = "idle"
  /\ mfs_op[t] = NoObj
  /\ sync_lock_[o] = NoThread
  /\ sync_lock_' = [sync_lock_ EXCEPT ![o] = t]
  /\ snap' = [snap EXCEPT ![t] = logged_ops(o)]
  /\ wait_tsc' = [wait_tsc EXCEPT ![t] = T]
  /\ pc' = [pc EXCEPT ![t] = "ws_start"]
  /\ self_' = [self_ EXCEPT ![t] = o]
  /\ UNCHANGED <<cache_vars, cpus_, pending_, mfs_vars, clock, applied,
                 cur_obj, sync_vars, start_tsc, need_retry, writer_vars,
                 count_vars, started, inflight, epoch>>

\* start_tsc = mfs_start_tsc[i].tsc_value
wait_synchronize_start(t) ==
  LET o == self_[t]
      i == scan[t]
  IN  /\ pc[t] = "ws_start"
      /\ start_tsc' = [start_tsc EXCEPT ![t] = mfs_start_tsc[o][i]]
      /\ started' = [started EXCEPT ![t] = @ \cup flight_ids(o, i)]
      /\ pc' = [pc EXCEPT ![t] = "ws_end"]
      /\ UNCHANGED <<cache_vars, object_vars, mfs_vars, clock, applied,
                     self_, cur_obj, sync_vars, wait_tsc, need_retry,
                     writer_vars, count_vars, snap, inflight, epoch>>

\* The check loop goes on to CPU i + 1, or the gather loop begins.
wait_synchronize_next(t) ==
  LET o == self_[t]
      i == scan[t]
  IN  /\ start_tsc' = [start_tsc EXCEPT ![t] = 0]
      /\ need_retry' = [need_retry EXCEPT ![t] = FALSE]
      /\ any' = any
      /\ IF i + 1 < NCPU
         THEN /\ scan' = [scan EXCEPT ![t] = i + 1]
              /\ pc' = [pc EXCEPT ![t] = "ws_start"]
              /\ UNCHANGED inflight
         ELSE /\ scan' = [scan EXCEPT ![t] = 0]
              /\ pc' = [pc EXCEPT ![t] = "sy_scan"]
              /\ inflight' = [inflight EXCEPT ![t] =
                                UNION {flight_ids(o, c) : c \in CPUs}]

\* The check of wait_synchronize: CPU i is executing an operation that
\* might not be logged yet and that began before wait_tsc.
must_wait(end_tsc, start, T) == end_tsc < start /\ start < T

\* end_tsc = mfs_end_tsc[i].tsc_value, then the check.
wait_synchronize_end(t) ==
  LET o == self_[t]
      i == scan[t]
  IN  /\ pc[t] = "ws_end"
      /\ IF must_wait(mfs_end_tsc[o][i], start_tsc[t], wait_tsc[t])
         THEN /\ pc' = [pc EXCEPT ![t] = "ws_wait"]
              /\ need_retry' = [need_retry EXCEPT ![t] = FALSE]
              /\ UNCHANGED <<sync_vars, start_tsc, inflight>>
         ELSE wait_synchronize_next(t)
      /\ UNCHANGED <<cache_vars, object_vars, mfs_vars, clock, applied,
                     self_, cur_obj, wait_tsc, writer_vars, count_vars, snap,
                     started, epoch>>

\* Mutant of wait_synchronize_wait: the loop does not wait for end_tsc.
wait_synchronize_nowait(t) ==
  /\ pc[t] = "ws_wait"
  /\ wait_synchronize_next(t)
  /\ UNCHANGED <<cache_vars, object_vars, mfs_vars, clock, applied, self_,
                 cur_obj, wait_tsc, writer_vars, count_vars, snap, started,
                 epoch>>

\* while (!r_end.need_retry()); ends when a new end_tsc has been published.
wait_synchronize_wait(t) ==
  /\ pc[t] = "ws_wait"
  /\ need_retry[t]
  /\ wait_synchronize_next(t)
  /\ UNCHANGED <<cache_vars, object_vars, mfs_vars, clock, applied, self_,
                 cur_obj, wait_tsc, writer_vars, count_vars, snap, started,
                 epoch>>

\* A scan found no bit set: flush_finish_max_timestamp(wait_tsc); return
\* std::move(guard)
wait_synchronize_finish(t) ==
  LET o == self_[t]
  IN  /\ pc[t] = "sy_scan"
      /\ scan[t] = NCPU
      /\ wait_tsc[t] # NoTsc
      /\ \E r \in flush_finish_max_timestamp(pending_[o], wait_tsc[t]) :
           /\ applied' = [applied EXCEPT ![o] = @ \o r[1]]
           /\ pending_' = [pending_ EXCEPT ![o] = r[2]]
      /\ scan' = [scan EXCEPT ![t] = 0]
      /\ pc' = [pc EXCEPT ![t] = "sy_held"]
      /\ UNCHANGED <<cache_vars, cpus_, sync_lock_, mfs_vars, clock, self_,
                     cur_obj, any, wait_vars, writer_vars, count_vars,
                     ghost_vars>>

\* ------------------------------------------------------------ clear_loggers
\* clear_loggers(): auto guard = sync_lock_.guard()
clear_loggers_call(t, o) ==
  /\ pc[t] = "idle"
  /\ mfs_op[t] = NoObj
  /\ sync_lock_[o] = NoThread
  /\ sync_lock_' = [sync_lock_ EXCEPT ![o] = t]
  /\ pc' = [pc EXCEPT ![t] = "cl_scan"]
  /\ self_' = [self_ EXCEPT ![t] = o]
  /\ UNCHANGED <<cache_vars, cpus_, pending_, mfs_vars, clock, applied,
                 cur_obj, sync_vars, wait_vars, writer_vars, count_vars,
                 ghost_vars>>

\* for (auto cpu : cpus_): the bit of the next CPU is clear.
clear_loggers_skip(t) ==
  LET o == self_[t]
      n == next_scan(scan[t], any[t])
  IN  /\ pc[t] = "cl_scan"
      /\ scan[t] < NCPU
      /\ scan[t] \notin cpus_[o]
      /\ scan' = [scan EXCEPT ![t] = n[1]]
      /\ any' = [any EXCEPT ![t] = n[2]]
      /\ UNCHANGED <<cache_vars, object_vars, mfs_vars, clock, applied, pc,
                     self_, cur_obj, wait_vars, writer_vars, count_vars,
                     ghost_vars>>

\* The bit is set: auto way_guard = way->lock_.guard()
clear_loggers_way(t) ==
  /\ pc[t] = "cl_scan"
  /\ scan[t] < NCPU
  /\ scan[t] \in cpus_[self_[t]]
  /\ way_lock_guard(t, scan[t], self_[t])
  /\ pc' = [pc EXCEPT ![t] = "cl_reset"]
  /\ UNCHANGED <<obj_, logger_, object_vars, mfs_vars, clock, applied, self_,
                 cur_obj, sync_vars, wait_vars, writer_vars, count_vars,
                 ghost_vars>>

\* Mutant of clear_loggers_reset: the way's tag is emptied with its logger.
clear_loggers_reset_untag(t) ==
  LET o == self_[t]
      w == WayOf[o]
      c == scan[t]
      n == next_scan(c, TRUE)
  IN  /\ pc[t] = "cl_reset"
      /\ logger_' = [logger_ EXCEPT ![c][w] = <<>>]
      /\ obj_' = [obj_ EXCEPT ![c][w] = NoObj]
      /\ lock_' = [lock_ EXCEPT ![c][w] = NoThread]
      /\ scan' = [scan EXCEPT ![t] = n[1]]
      /\ any' = [any EXCEPT ![t] = n[2]]
      /\ pc' = [pc EXCEPT ![t] = "cl_scan"]
      /\ UNCHANGED <<object_vars, mfs_vars, clock, applied, self_, cur_obj,
                     wait_vars, writer_vars, count_vars, ghost_vars>>

\* way->logger_.reset(); any = true; the way guard ends with the loop body.
\* The bit of the CPU stays set.
clear_loggers_reset(t) ==
  LET o == self_[t]
      w == WayOf[o]
      c == scan[t]
      n == next_scan(c, TRUE)
  IN  /\ pc[t] = "cl_reset"
      /\ logger_' = [logger_ EXCEPT ![c][w] = <<>>]
      /\ lock_' = [lock_ EXCEPT ![c][w] = NoThread]
      /\ scan' = [scan EXCEPT ![t] = n[1]]
      /\ any' = [any EXCEPT ![t] = n[2]]
      /\ pc' = [pc EXCEPT ![t] = "cl_scan"]
      /\ UNCHANGED <<obj_, object_vars, mfs_vars, clock, applied, self_,
                     cur_obj, wait_vars, writer_vars, count_vars, ghost_vars>>

\* A scan found no bit set: clear_loggers returns and its guard ends.
clear_loggers_return(t) ==
  LET o == self_[t]
  IN  /\ pc[t] = "cl_scan"
      /\ scan[t] = NCPU
      /\ sync_lock_' = [sync_lock_ EXCEPT ![o] = NoThread]
      /\ scan' = [scan EXCEPT ![t] = 0]
      /\ self_' = [self_ EXCEPT ![t] = NoObj]
      /\ pc' = [pc EXCEPT ![t] = "idle"]
      /\ UNCHANGED <<cache_vars, cpus_, pending_, mfs_vars, clock, applied,
                     cur_obj, any, wait_vars, writer_vars, count_vars,
                     ghost_vars>>

\* ~tsc_logged_object(): pending_.clear(); clear_loggers() takes the sync
\* lock.  The object is destroyed when no other thread is inside a call on it.
tsc_logged_object_dtor(t, o) ==
  /\ pc[t] = "idle"
  /\ mfs_op[t] = NoObj
  /\ \A u \in Threads \ {t} : self_[u] # o
  /\ sync_lock_[o] = NoThread
  /\ pending_' = [pending_ EXCEPT ![o] = <<>>]
  /\ sync_lock_' = [sync_lock_ EXCEPT ![o] = t]
  /\ pc' = [pc EXCEPT ![t] = "cl_scan"]
  /\ self_' = [self_ EXCEPT ![t] = o]
  /\ UNCHANGED <<cache_vars, cpus_, mfs_vars, clock, applied, cur_obj,
                 sync_vars, wait_vars, writer_vars, count_vars, ghost_vars>>

\* ------------------------------------------------------------ specifications
WaitVals == 1 .. MaxTsc

\* The steps of get_logger after the call, and the release of the handle.
get_logger_step(t) ==
  \/ get_logger_lock(t)
  \/ get_logger_hit(t)
  \/ get_logger_try(t)
  \/ get_logger_evict(t)
  \/ release_logger(t)

\* The steps of the gather loop of synchronize and wait_synchronize.
gather_step(t) ==
  \/ synchronize_skip(t)
  \/ synchronize_way(t)
  \/ synchronize_flush(t)

\* The steps of wait_synchronize's check loop.
wait_step(t) ==
  \/ wait_synchronize_start(t)
  \/ wait_synchronize_end(t)
  \/ wait_synchronize_wait(t)

\* tsc_logged_object: writers log with push_with_tsc, readers synchronize.
thread_step(t) ==
  \/ \E o \in Objects : get_logger_call(t, o)
  \/ get_logger_step(t)
  \/ \E tsc \in TscVals : push_with_tsc(t, tsc)
  \/ \E o \in Objects : synchronize_call(t, o)
  \/ gather_step(t)
  \/ synchronize_finish(t)
  \/ sync_unlock(t)

Next == \E t \in Threads : thread_step(t)

Spec == Init /\ [][Next]_vars

\* The steps of clear_loggers after the call.
clear_step(t) ==
  \/ clear_loggers_skip(t)
  \/ clear_loggers_way(t)
  \/ clear_loggers_reset(t)
  \/ clear_loggers_return(t)

\* tsc_logged_object with clear_loggers: every user of the way loggers.
NextClear ==
  \E t \in Threads :
    \/ thread_step(t)
    \/ \E o \in Objects : clear_loggers_call(t, o)
    \/ clear_step(t)

SpecClear == Init /\ [][NextClear]_vars

\* tsc_logged_object: writers log with push, which reads the counter.
NextClock ==
  \/ tick
  \/ \E t \in Threads :
       \/ \E o \in Objects : get_logger_call(t, o)
       \/ get_logger_step(t)
       \/ push(t)
       \/ \E o \in Objects : synchronize_call(t, o)
       \/ gather_step(t)
       \/ synchronize_finish(t)
       \/ sync_unlock(t)

SpecClock == Init /\ [][NextClock]_vars

\* The calls on one object are recorded from the start.
TwiceObj == 246720

InitTwice ==
  /\ InitProgram
  /\ epoch = [o \in Objects |-> IF o = TwiceObj THEN "none" ELSE "off"]

SpecTwice == InitTwice /\ [][Next]_vars

\* mfs_logged_object: the writers bracket each logged operation with
\* update_start_tsc and update_end_tsc, readers wait_synchronize.
mfs_step(t) ==
  \/ \E o \in Objects, s \in TscVals : update_start_tsc(t, o, s)
  \/ \E o \in Objects : mfs_op[t] # NoObj /\ get_logger_call(t, o)
  \/ get_logger_step(t)
  \/ \E tsc \in TscVals : push_with_tsc(t, tsc)
  \/ \E e \in TscVals : update_end_tsc(t, e)
  \/ \E o \in Objects, T \in WaitVals : wait_synchronize_call(t, o, T)
  \/ wait_step(t)
  \/ gather_step(t)
  \/ wait_synchronize_finish(t)
  \/ sync_unlock(t)

NextMfs == \E t \in Threads : mfs_step(t)

SpecMfs == Init /\ [][NextMfs]_vars

\* One mfs_logged_object, MfsObj, with its writers and readers.
MfsObj == 246720

wait_thread_step(t) ==
  \/ \E s \in TscVals : update_start_tsc(t, MfsObj, s)
  \/ mfs_op[t] # NoObj /\ get_logger_call(t, MfsObj)
  \/ get_logger_hit(t)
  \/ \E tsc \in TscVals : push_with_tsc(t, tsc)
  \/ release_logger(t)
  \/ \E e \in TscVals : update_end_tsc(t, e)
  \/ \E T \in WaitVals : wait_synchronize_call(t, MfsObj, T)
  \/ wait_step(t)
  \/ gather_step(t)
  \/ wait_synchronize_finish(t)
  \/ sync_unlock(t)

NextWait == \E t \in Threads : wait_thread_step(t)

\* Every CPU keeps running: a spinning loop goes on when it can and a
\* writer finishes the operation it began.
SpecWaitFair ==
  Init /\ [][NextWait]_vars /\ \A t \in Threads : WF_vars(wait_thread_step(t))

\* flush_finish and flush_finish_max_timestamp on any pending_: the object
\* FlushObj starts with up to MaxLoggers pending loggers of up to MaxLen
\* operations each, logger j flushed from CPU (j - 1) % NCPU, and readers
\* synchronize or wait_synchronize.
FlushObj == 246720

LoggerTscs == UNION {[1 .. n -> TscVals] : n \in 0 .. MaxLen}

PendingTscs == UNION {[1 .. m -> LoggerTscs] : m \in 0 .. MaxLoggers}

cpu_of(j) == (j - 1) % NCPU

\* The operations CPU cpu_of(j) logged in the loggers before logger j.
RECURSIVE ops_before(_, _)
ops_before(sh, j) ==
  LET earlier == {i \in 1 .. (j - 1) : cpu_of(i) = cpu_of(j)}
  IN  IF earlier = {} THEN 0
      ELSE LET i == CHOOSE x \in earlier : \A y \in earlier : y <= x
           IN  ops_before(sh, i) + Len(sh[i])

pending_of(sh) ==
  [j \in 1 .. Len(sh) |->
     [k \in 1 .. Len(sh[j]) |->
        [id |-> <<cpu_of(j), ops_before(sh, j) + k>>, tsc |-> sh[j][k],
         obj |-> FlushObj]]]

InitFlush ==
  \E sh \in PendingTscs :
    /\ obj_ = [c \in CPUs |-> [w \in Ways |-> NoObj]]
    /\ lock_ = [c \in CPUs |-> [w \in Ways |-> NoThread]]
    /\ logger_ = [c \in CPUs |-> [w \in Ways |-> <<>>]]
    /\ cpus_ = [o \in Objects |-> {}]
    /\ sync_lock_ = [o \in Objects |-> NoThread]
    /\ pending_ = [o \in Objects |-> IF o = FlushObj THEN pending_of(sh) ELSE <<>>]
    /\ mfs_start_tsc = [o \in Objects |-> [c \in CPUs |-> 0]]
    /\ mfs_end_tsc = [o \in Objects |-> [c \in CPUs |-> 0]]
    /\ clock = 0
    /\ applied = [o \in Objects |-> <<>>]
    /\ pc = [t \in Threads |-> "idle"]
    /\ self_ = [t \in Threads |-> NoObj]
    /\ cur_obj = [t \in Threads |-> NoObj]
    /\ scan = [t \in Threads |-> 0]
    /\ any = [t \in Threads |-> FALSE]
    /\ wait_tsc = [t \in Threads |-> NoTsc]
    /\ start_tsc = [t \in Threads |-> 0]
    /\ need_retry = [t \in Threads |-> FALSE]
    /\ mfs_op = [t \in Threads |-> NoObj]
    /\ op_tsc = [t \in Threads |-> NoTsc]
    /\ op_pushed = [t \in Threads |-> FALSE]
    /\ nops = [c \in CPUs |->
                 Sum([j \in 1 .. Len(sh) |-> IF cpu_of(j) = c THEN Len(sh[j]) ELSE 0],
                     1 .. Len(sh))]
    /\ ncalls = 0
    /\ snap = [t \in Threads |-> {}]
    /\ started = [t \in Threads |-> {}]
    /\ inflight = [t \in Threads |-> {}]
    /\ epoch = [o \in Objects |-> "off"]

NextFlush ==
  \E t \in Threads :
    \/ synchronize_call(t, FlushObj)
    \/ \E T \in WaitVals : wait_synchronize_call(t, FlushObj, T)
    \/ wait_synchronize_start(t)
    \/ wait_synchronize_end(t)
    \/ synchronize_skip(t)
    \/ synchronize_finish(t)
    \/ wait_synchronize_finish(t)
    \/ sync_unlock(t)

SpecFlush == InitFlush /\ [][NextFlush]_vars

\* C1: every operation of o that was pushed on any CPU before synchronize(o)
\* took o's sync lock, whether it was still in a way logger or had been moved
\* to o.pending_ by an eviction, has been run when synchronize returns.
C1_PushedBeforeSyncAreRun ==
  \A t \in Threads :
    pc[t] = "sy_held" => snap[t] \subseteq Ids(applied[self_[t]])

\* synchronize has returned after running one operation that an eviction had
\* moved to pending_ and one that it gathered from another way.
C1_Witness ==
  \E t \in Threads :
    /\ pc[t] = "sy_held"
    /\ \E i1, i2 \in snap[t] :
         /\ obj_[i1[1]][WayOf[self_[t]]] # self_[t]
         /\ obj_[i2[1]][WayOf[self_[t]]] = self_[t]
         /\ {i1, i2} \subseteq Ids(applied[self_[t]])

\* C3: while a caller holds the guard synchronize(o) returned, no step of any
\* thread runs an operation of o, changes o.pending_, clears a bit of o.cpus_
\* or evicts o from a way; writers only append to way loggers.
C3_GuardIsCriticalSection ==
  [][\A t \in Threads :
       pc[t] = "sy_held" =>
         LET o == self_[t]
         IN  /\ applied'[o] = applied[o]
             /\ pending_'[o] = pending_[o]
             /\ cpus_[o] \subseteq cpus_'[o]
             /\ \A c \in CPUs :
                  obj_[c][WayOf[o]] = o => obj_'[c][WayOf[o]] = o]_vars

\* A caller holds the guard of o while another CPU has pushed to o's log
\* after the gather, and an eviction of o has backed out.
C3_Witness ==
  \E t, u \in Threads :
    /\ pc[t] = "sy_held"
    /\ pc[u] = "gl_lock"
    /\ obj_[u][WayOf[self_[t]]] = self_[t]
    /\ logger_[u][WayOf[self_[t]]] # <<>>

\* A thread inside a call that has no enabled step.
Stuck(t) == pc[t] \notin {"idle", "has_logger", "sy_held"} /\ ~ENABLED thread_step(t)

\* C4: get_logger and synchronize never deadlock: no two threads are stuck at
\* once, and a get_logger that backed out holds neither the way lock nor any
\* sync lock.
C4_NoDeadlock ==
  /\ \A a, b \in Threads : a # b => ~(Stuck(a) /\ Stuck(b))
  /\ \A t \in Threads :
       pc[t] = "gl_lock" =>
         /\ \A c \in CPUs, w \in Ways : lock_[c][w] # t
         /\ \A o \in Objects : sync_lock_[o] # t

\* get_logger backed out of evicting an object whose synchronize is waiting
\* for get_logger's way.
C4_Witness ==
  \E t, u \in Threads :
    /\ pc[u] = "gl_lock"
    /\ pc[t] = "sy_scan"
    /\ scan[t] = u
    /\ u \in cpus_[self_[t]]
    /\ self_[u] # self_[t]

\* The ids of the operations pushed so far on CPU c.
pushed_ids(c) == {<<c, k>> : k \in 1 .. nops[c]}

\* The operations of o that have been moved to o.pending_ or run.
flushed_ops(o) ==
  UNION {Ids(pending_[o][i]) : i \in 1 .. Len(pending_[o])} \cup Ids(applied[o])

\* C5: when get_logger(o) has returned on CPU c the caller holds the lock of
\* way_for(o), the way is tagged o, o.cpus_[c] is set, the logger holds
\* operations of o only, and every other operation pushed on c was handed to
\* its object's flush_logger, whose cpus_[c] is clear.
C5_GetLoggerReturn ==
  \A t \in Threads :
    pc[t] = "has_logger" =>
      LET o == self_[t]
          w == WayOf[o]
      IN  /\ lock_[t][w] = t
          /\ obj_[t][w] = o
          /\ t \in cpus_[o]
          /\ \A i \in 1 .. Len(logger_[t][w]) : logger_[t][w][i].obj = o
          /\ \A other \in Objects \ {o} : WayOf[other] = w => t \notin cpus_[other]
          /\ pushed_ids(t) \subseteq
               Ids(logger_[t][w]) \cup UNION {flushed_ops(p) : p \in Objects}

\* get_logger returned after evicting a logger that held an operation.
C5_Witness ==
  \E t \in Threads :
    /\ pc[t] = "has_logger"
    /\ logger_[t][WayOf[self_[t]]] = <<>>
    /\ \E other \in Objects \ {self_[t]} :
         \E i \in 1 .. Len(pending_[other]) :
           \E k \in 1 .. Len(pending_[other][i]) : pending_[other][i][k].id[1] = t

\* The threads that are using the logger of way w of CPU c.
logger_users(c, w) ==
  {t \in Threads :
     \/ t = c /\ pc[t] \in {"gl_tag", "gl_evict", "has_logger"} /\ WayOf[self_[t]] = w
     \/ pc[t] \in {"sy_flush", "cl_reset"} /\ scan[t] = c /\ WayOf[self_[t]] = w}

\* C6: at most one thread uses a way's logger at a time, and it holds the
\* way's lock.
C6_LoggerMutualExclusion ==
  \A c \in CPUs, w \in Ways :
    /\ Cardinality(logger_users(c, w)) <= 1
    /\ \A t \in logger_users(c, w) : lock_[c][w] = t

\* synchronize flushes the way of another CPU whose writer waits for the lock.
C6_Witness ==
  \E t, u \in Threads :
    /\ t # u
    /\ pc[t] = "sy_flush"
    /\ scan[t] = u
    /\ pc[u] = "gl_lock"

\* The operations the step adds to the ones run on o.
run_now(o) == SubSeq(applied'[o], Len(applied[o]) + 1, Len(applied'[o]))

\* The operations in the loggers of a pending_ vector.
pending_ops(pend) == UNION {Range(pend[i]) : i \in 1 .. Len(pend)}

\* C2: the operations one synchronize runs are all the operations of the
\* pending loggers, each once, in non-decreasing timestamp order: the merged
\* sequence of flush_finish satisfies is_sorted.
C2_FlushFinishSorted ==
  [][\A t \in Threads :
       (pc[t] = "sy_scan" /\ pc'[t] = "sy_held" /\ wait_tsc[t] = NoTsc) =>
         LET o == self_[t]
         IN  /\ is_sorted(run_now(o))
             /\ Range(run_now(o)) = pending_ops(pending_[o])
             /\ Len(run_now(o)) = Cardinality(pending_ops(pending_[o]))]_vars

\* synchronize has run A, B, C in this order, where CPU 0 had logged A and C
\* and CPU 1 had logged B between them.
C2_Witness ==
  \E t \in Threads :
    LET a == applied[self_[t]]
    IN  /\ pc[t] = "sy_held"
        /\ wait_tsc[t] = NoTsc
        /\ Len(a) = 3
        /\ a[1].id = <<0, 1>> /\ a[2].id = <<1, 1>> /\ a[3].id = <<0, 2>>
        /\ a[1].tsc < a[2].tsc /\ a[2].tsc < a[3].tsc

\* C7: wait_synchronize(T) runs exactly the pending operations with a
\* timestamp below T, in timestamp order, and every pending operation with a
\* timestamp of T or more is in a logger of pending_ afterwards.
C7_WaitSynchronizeDefers ==
  [][\A t \in Threads :
       (pc[t] = "sy_scan" /\ pc'[t] = "sy_held" /\ wait_tsc[t] # NoTsc) =>
         LET o == self_[t]
             before == pending_ops(pending_[o])
         IN  /\ \A i \in 1 .. Len(run_now(o)) : run_now(o)[i].tsc < wait_tsc[t]
             /\ Range(run_now(o)) = {op \in before : op.tsc < wait_tsc[t]}
             /\ pending_ops(pending_'[o]) = {op \in before : op.tsc >= wait_tsc[t]}
             /\ is_sorted(run_now(o))]_vars

\* wait_synchronize(T) has run an operation of CPU 0 below T and left an
\* operation of CPU 1 at or above T pending.
C7_Witness ==
  \E t \in Threads :
    LET o == self_[t]
    IN  /\ pc[t] = "sy_held"
        /\ wait_tsc[t] # NoTsc
        /\ \E i \in 1 .. Len(applied[o]) :
             applied[o][i].id[1] = 0 /\ applied[o][i].tsc < wait_tsc[t]
        /\ \E op \in pending_ops(pending_[o]) :
             op.id[1] = 1 /\ op.tsc >= wait_tsc[t]

\* The positions of a wait_synchronize that has not returned.
InWait == {"ws_start", "ws_end", "ws_wait", "sy_scan", "sy_flush"}

all_ops ==
  UNION {Range(logger_[c][w]) : c \in CPUs, w \in Ways}
    \cup UNION {pending_ops(pending_[o]) : o \in Objects}
    \cup UNION {Range(applied[o]) : o \in Objects}

\* The operations with an id in ids that wait_synchronize(T) of thread t had
\* to run: those of its object with a timestamp below T.
due(t, ids) ==
  {op \in all_ops : op.id \in ids /\ op.obj = self_[t] /\ op.tsc < wait_tsc[t]}

\* C9: after wait_synchronize(T) has returned, every operation with L < T
\* has been run that was logged before the call, or whose writer on CPU i
\* did update_start_tsc before wait_synchronize read CPU i's start_tsc.
C9_StartedBeforeCheckAreRun ==
  \A t \in Threads :
    (pc[t] = "sy_held" /\ wait_tsc[t] # NoTsc) =>
      \A op \in due(t, snap[t] \cup started[t]) :
        op.id \in Ids(applied[self_[t]])

\* wait_synchronize has returned after running an operation that was begun
\* and not logged when it checked the writer's CPU.
C9_Witness ==
  \E t \in Threads :
    /\ pc[t] = "sy_held"
    /\ wait_tsc[t] # NoTsc
    /\ \E op \in due(t, started[t] \ snap[t]) :
         op.id \in Ids(applied[self_[t]])

\* C9 as stated: after wait_synchronize(T) has returned, every operation
\* with L < T whose writer did update_start_tsc before the gather loop began
\* has been run.
C9_StartedBeforeGatherAreRun ==
  \A t \in Threads :
    (pc[t] = "sy_held" /\ wait_tsc[t] # NoTsc) =>
      \A op \in due(t, snap[t] \cup inflight[t]) :
        op.id \in Ids(applied[self_[t]])

\* C10: with push, the operations run on an object over all its
\* synchronize calls are in non-decreasing timestamp order, and no logged
\* operation that has not been run has a timestamp below one that has.
C10_RunOrderMonotonic ==
  \A o \in Objects :
    /\ is_sorted(applied[o])
    /\ \A i \in 1 .. Len(applied[o]) :
         \A op \in all_ops :
           (op.obj = o /\ op.id \notin Ids(applied[o])) =>
             ~compare_tsc(op, applied[o][i])

\* A synchronize has run an operation with a larger timestamp than the
\* operation an earlier synchronize of the object ran.
C10_Witness ==
  \E t \in Threads :
    LET a == applied[self_[t]]
    IN  /\ pc[t] = "sy_held"
        /\ Len(a) = 2
        /\ a[1].id \notin snap[t]
        /\ a[2].id \in snap[t]
        /\ a[1].tsc < a[2].tsc

\* The operations CPU c pushed on o that are still in its way logger: the
\* ones pushed since the way was last evicted or flushed for o.
unflushed(c, o) == {op \in Range(logger_[c][WayOf[o]]) : op.obj = o}

\* C11: whenever the lock of way_for(o) on CPU c is not held, a clear
\* o.cpus_[c] means that no operation of o is in that way's logger.
C11_ClearBitMeansNoOps ==
  \A c \in CPUs, o \in Objects :
    (lock_[c][WayOf[o]] = NoThread /\ c \notin cpus_[o]) => unflushed(c, o) = {}

\* A way is unlocked and holds an operation of o, whose bit is set, after a
\* gather cleared the bit once before.
C11_Witness ==
  \E c \in CPUs, o \in Objects :
    /\ lock_[c][WayOf[o]] = NoThread
    /\ unflushed(c, o) # {}
    /\ c \in cpus_[o]
    /\ \E i \in 1 .. Len(applied[o]) : applied[o][i].id[1] = c

\* C11 as stated: whenever the lock of way_for(o) on CPU c is not held, no
\* operation of o is in that way's logger if and only if o.cpus_[c] is clear.
C11_ZeroIffClear ==
  \A c \in CPUs, o \in Objects :
    lock_[c][WayOf[o]] = NoThread => (unflushed(c, o) = {} <=> c \notin cpus_[o])

\* The step in which flush_finish returns inside synchronize of thread t.
flush_finish_returns(t) ==
  pc[t] = "sy_scan" /\ pc'[t] = "sy_held" /\ wait_tsc[t] = NoTsc

clearers(o) ==
  {t \in Threads :
     \/ pc[t] = "gl_evict" /\ cur_obj[t] = o
     \/ pc[t] = "sy_flush" /\ self_[t] = o}

\* C13: every step that clears bit c of o.cpus_ is taken while one thread
\* holds both o's sync lock and the lock of way_for(o) on CPU c; a step that
\* sets a bit is taken by the holder of that way's lock, whoever holds the
\* sync lock; and at most one thread at a time is at a step that clears a
\* bit of o.
C13_ClearUnderBothLocks ==
  /\ [][\A o \in Objects, c \in CPUs :
          /\ (c \in cpus_[o] /\ c \notin cpus_'[o]) =>
               \E t \in Threads :
                 /\ sync_lock_[o] = t
                 /\ lock_[c][WayOf[o]] = t
                 /\ t \in clearers(o)
          /\ (c \notin cpus_[o] /\ c \in cpus_'[o]) =>
               lock_[c][WayOf[o]] = c]_vars
  /\ [](\A o \in Objects : Cardinality(clearers(o)) <= 1)

\* get_logger is about to clear its CPU's bit of the object it evicts,
\* holding that object's sync lock and the way's lock, while another thread
\* holds the guard of the object get_logger was called on, whose bit it
\* then sets without that sync lock.
C13_Witness ==
  \E t, u \in Threads :
    LET cur == cur_obj[t]
    IN  /\ pc[t] = "gl_evict"
        /\ t \in cpus_[cur]
        /\ sync_lock_[cur] = t
        /\ lock_[t][WayOf[cur]] = t
        /\ pc[u] = "sy_held"
        /\ self_[u] = self_[t]
        /\ t \notin cpus_[self_[t]]


\* A step of thread t inside a synchronize call (not wait_synchronize).
synchronize_step(t) ==
  /\ pc[t] \in {"sy_scan", "sy_flush"}
  /\ wait_tsc[t] = NoTsc
  /\ <<pc'[t], scan'[t], any'[t]>> # <<pc[t], scan[t], any[t]>>

\* What claim C14 says a second synchronize(o) leaves alone.
untouched(o) ==
  /\ applied'[o] = applied[o]
  /\ cpus_'[o] = cpus_[o]
  /\ pending_'[o] = pending_[o]
  /\ logger_' = logger_

\* C14 (as amended): when synchronize(o) is called again after a
\* synchronize(o) that returned, and no get_logger on o was called or still
\* running, and o was not evicted, since the first call took the sync lock,
\* then no step of the second call runs an operation or changes o.cpus_,
\* o.pending_ or any way logger.
C14_SecondSynchronizeIsNoOp ==
  [][\A t \in Threads :
       (synchronize_step(t) /\ epoch[self_[t]] = "second")
         => untouched(self_[t])]_vars

\* A second synchronize has returned after a first one that ran operations.
C14_Witness ==
  \E t \in Threads :
    /\ pc[t] = "sy_held"
    /\ epoch[self_[t]] = "clean"
    /\ snap[t] = {}
    /\ applied[self_[t]] # <<>>
    /\ \E c \in CPUs : obj_[c][WayOf[self_[t]]] = self_[t]

\* C14 as stated: no get_logger on o is called, and o is not evicted, between
\* the two calls; a get_logger on o called before the first call may still be
\* running.
C14_NoGetLoggerCalledBetween ==
  [][\A t \in Threads :
       (synchronize_step(t) /\ epoch[self_[t]] \in {"second", "second_busy"})
         => untouched(self_[t])]_vars

\* One tsc_logged_object that is written to and then destroyed.  No thread
\* calls get_logger on the object while its destructor runs; every thread
\* that can take a step eventually takes one.
DtorObj == 246720

being_destroyed(o) ==
  \E u \in Threads : self_[u] = o /\ pc[u] \in {"cl_scan", "cl_reset"}

dtor_thread_step(t) ==
  \/ (~being_destroyed(DtorObj) /\ get_logger_call(t, DtorObj))
  \/ get_logger_hit(t)
  \/ \E tsc \in TscVals : push_with_tsc(t, tsc)
  \/ release_logger(t)
  \/ tsc_logged_object_dtor(t, DtorObj)
  \/ clear_step(t)

NextDtor == \E t \in Threads : dtor_thread_step(t)

SpecDtorFair ==
  Init /\ [][NextDtor]_vars /\ \A t \in Threads : WF_vars(dtor_thread_step(t))

\* C15: the destructor of a tsc_logged_object completes whatever bits are set
\* in cpus_: a clear_loggers that has taken the sync lock eventually returns.
C15_DestructorCompletes ==
  \A t \in Threads : (pc[t] = "cl_scan") ~> (pc[t] = "idle")

\* The part of C15 that the code keeps: clear_loggers runs no operation and
\* leaves pending_ alone, and it returns only from a scan that found no bit.
C15_ClearLoggersRunsNothing ==
  [][\A t \in Threads :
       pc[t] \in {"cl_scan", "cl_reset"}
         => /\ applied' = applied
            /\ pending_' = pending_
            /\ cpus_' = cpus_
            /\ pc'[t] = "idle" => cpus_[self_[t]] = {}]_vars

\* The destructor runs with a CPU bit set and has reset that way's logger.
C15_Witness ==
  \E t \in Threads, c \in CPUs :
    /\ pc[t] = "cl_scan"
    /\ any[t]
    /\ c \in cpus_[self_[t]]
    /\ c < scan[t]
    /\ logger_[c][WayOf[self_[t]]] = <<>>
    /\ nops[c] > 0

\* The place of the operation named id in the sequence ops.
place(ops, id) == CHOOSE i \in 1 .. Len(ops) : ops[i].id = id

\* C16: in the order in which flush_finish runs the operations, two
\* operations of one pending logger that carry the same timestamp are run in
\* the order in which they were pushed into that logger.
C16_EqualTscInPushOrder ==
  [][\A t \in Threads :
       (pc[t] = "sy_scan" /\ pc'[t] = "sy_held" /\ wait_tsc[t] = NoTsc) =>
         LET o == self_[t]
             run == run_now(o)
         IN  \A i \in 1 .. Len(pending_[o]) :
               \A k1, k2 \in 1 .. Len(pending_[o][i]) :
                 (k1 < k2 /\ pending_[o][i][k1].tsc = pending_[o][i][k2].tsc)
                   => place(run, pending_[o][i][k1].id)
                        < place(run, pending_[o][i][k2].id)]_vars

\* synchronize has run the only two operations, both logged on CPU 0 with the
\* same timestamp, the second one pushed first.
C16_Witness ==
  \E t \in Threads :
    LET a == applied[self_[t]]
    IN  /\ pc[t] = "sy_held"
        /\ wait_tsc[t] = NoTsc
        /\ Len(a) = 2
        /\ a[1].id = <<0, 2>> /\ a[2].id = <<0, 1>>
        /\ a[1].tsc = a[2].tsc

\* Writers, evictions in two steps, and the three gather loops: synchronize,
\* wait_synchronize and clear_loggers, on two objects that share a way.
tag_thread_step(t) ==
  \/ \E o \in Objects : get_logger_call(t, o)
  \/ get_logger_lock(t)
  \/ get_logger_hit(t)
  \/ get_logger_try(t)
  \/ get_logger_evict_flush(t)
  \/ get_logger_store(t)
  \/ release_logger(t)
  \/ push_with_tsc(t, 0)
  \/ \E o \in Objects : synchronize_call(t, o)
  \/ \E o \in Objects, T \in WaitVals : wait_synchronize_call(t, o, T)
  \/ wait_synchronize_start(t)
  \/ wait_synchronize_end(t)
  \/ gather_step(t)
  \/ synchronize_finish(t)
  \/ wait_synchronize_finish(t)
  \/ sync_unlock(t)
  \/ \E o \in Objects : clear_loggers_call(t, o)
  \/ clear_step(t)

NextTag == \E t \in Threads : tag_thread_step(t)

SpecTag == Init /\ [][NextTag]_vars

\* C17: a thread that holds o's sync lock, found bit c of o.cpus_ set and
\* took the lock of o's way on CPU c (in synchronize, wait_synchronize or
\* clear_loggers) finds the way tagged with o.
C17_GatherFindsOwnTag ==
  \A t \in Threads :
    pc[t] \in {"sy_flush", "cl_reset"}
      => obj_[scan[t]][WayOf[self_[t]]] = self_[t]

\* wait_synchronize holds the way lock of a CPU whose writer, calling
\* get_logger on the colliding object, has backed out of an eviction.
C17_Witness ==
  \E t \in Threads :
    /\ pc[t] = "sy_flush"
    /\ wait_tsc[t] # NoTsc
    /\ pc[scan[t]] = "gl_lock"
    /\ self_[scan[t]] # self_[t]
    /\ \E o \in Objects : pending_[o] # <<>>

\* C18: the tag of a way changes only in a step of get_logger on the way's
\* CPU, made with the way lock held: from empty to the calling object, or, at
\* the end of an eviction, from another object to the calling object.  A tag
\* never becomes empty again, and no step of synchronize, wait_synchronize or
\* clear_loggers changes a tag.
C18_TagChangesOnlyInGetLogger ==
  [][\A c \in CPUs, w \in Ways :
       obj_'[c][w] # obj_[c][w] =>
         /\ pc[c] \in {"gl_tag", "gl_store"}
         /\ pc'[c] = "has_logger"
         /\ w = WayOf[self_[c]]
         /\ lock_[c][w] = c
         /\ lock_'[c][w] = c
         /\ obj_'[c][w] = self_[c]
         /\ obj_'[c][w] \in Objects
         /\ pc[c] = "gl_tag" => obj_[c][w] = NoObj
         /\ pc[c] = "gl_store" => obj_[c][w] \in Objects \ {self_[c]}]_vars

\* A way was tagged with one object, whose operation an eviction moved to
\* pending_, and is now tagged with the other object.
C18_Witness ==
  \E c \in CPUs, o1, o2 \in Objects :
    /\ o1 # o2
    /\ pc[c] = "has_logger"
    /\ self_[c] = o2
    /\ obj_[c][WayOf[o2]] = o2
    /\ \E i \in 1 .. Len(pending_[o1]) :
         pending_[o1][i] # <<>> /\ pending_[o1][i][1].id[1] = c

\* C19: when wait_synchronize(T) has returned, every logger left in pending_
\* holds at least one operation, and all of its operations have a timestamp
\* of T or more.
C19_NoEmptyLoggerLeft ==
  \A t \in Threads :
    (pc[t] = "sy_held" /\ wait_tsc[t] # NoTsc) =>
      \A i \in 1 .. Len(pending_[self_[t]]) :
        /\ pending_[self_[t]][i] # <<>>
        /\ \A k \in 1 .. Len(pending_[self_[t]][i]) :
             pending_[self_[t]][i][k].tsc >= wait_tsc[t]

\* wait_synchronize has returned and left an empty logger next to a logger
\* whose operations are not due.
C19_Witness ==
  \E t \in Threads :
    /\ pc[t] = "sy_held"
    /\ wait_tsc[t] # NoTsc
    /\ \E i, j \in 1 .. Len(pending_[self_[t]]) :
         /\ pending_[self_[t]][i] = <<>>
         /\ pending_[self_[t]][j] # <<>>

\* The steps by which a call in progress goes on: a writer inside get_logger
\* or holding a handle, a synchronize inside its gather loop, a caller that
\* holds the guard synchronize returned.
progress_step(t) ==
  \/ get_logger_step(t)
  \/ gather_step(t)
  \/ synchronize_finish(t)
  \/ sync_unlock(t)

quiesce_thread_step(t) ==
  \/ \E o \in Objects : get_logger_call(t, o)
  \/ push_with_tsc(t, 0)
  \/ synchronize_call(t, TwiceObj)
  \/ progress_step(t)

NextQuiesce == \E t \in Threads : quiesce_thread_step(t)

\* Every CPU keeps running the call it is in, and a gather loop that spins on
\* a way lock gets the lock when it is free again and again.  The writers
\* quiesce because get_logger is called MaxCalls times at most.
SpecQuiesceFair ==
  /\ InitTwice
  /\ [][NextQuiesce]_vars
  /\ \A t \in Threads : WF_vars(progress_step(t)) /\ SF_vars(synchronize_way(t))

\* A step of synchronize other than its return.
gather_only_step(t) == synchronize_step(t) /\ pc'[t] # "sy_held"

once_thread_step(t) ==
  \/ \E o \in Objects : get_logger_call(t, o)
  \/ get_logger_step(t)
  \/ \E tsc \in TscVals : push_with_tsc(t, tsc)
  \/ synchronize_call(t, MfsObj)
  \/ wait_synchronize_call(t, MfsObj, MaxTsc)
  \/ wait_synchronize_start(t)
  \/ wait_synchronize_end(t)
  \/ gather_step(t)
  \/ synchronize_finish(t)
  \/ wait_synchronize_finish(t)
  \/ sync_unlock(t)

NextOnce == \E t \in Threads : once_thread_step(t)

SpecOnce == Init /\ [][NextOnce]_vars

\* The positions of the sequence ops that hold the operation named id.
positions(ops, id) == {i \in 1 .. Len(ops) : ops[i].id = id}

\* Where the operation named id has been run.
runs(id) ==
  UNION {{<<o, i>> : i \in positions(applied[o], id)} : o \in Objects}

\* Where the operation named id is logged: in a logger of a pending_ vector
\* or in a way logger.
logged(id) ==
  UNION {UNION {{<<"pending_", o, j, i>> : i \in positions(pending_[o][j], id)}
                  : j \in 1 .. Len(pending_[o])} : o \in Objects}
    \cup UNION {UNION {{<<"logger_", c, w, i>> : i \in positions(logger_[c][w], id)}
                         : w \in Ways} : c \in CPUs}

\* C21: every pushed operation is in one place only: it has been run once,
\* or it is in one logger of one pending_ vector, or it is in one way logger.
\* So no operation is run twice, and an operation moved to pending_ is in no
\* way logger.
C21_RunAtMostOnce ==
  \A c \in CPUs :
    \A id \in pushed_ids(c) :
      /\ Cardinality(runs(id)) <= 1
      /\ Cardinality(runs(id)) + Cardinality(logged(id)) = 1

\* A synchronize is gathering after a wait_synchronize that ran one operation
\* and left in pending_ an operation the same CPU had pushed before it.
C21_Witness ==
  \E t \in Threads :
    LET o == self_[t]
    IN  /\ pc[t] = "sy_scan"
        /\ wait_tsc[t] = NoTsc
        /\ Len(applied[o]) = 1
        /\ \E j \in 1 .. Len(pending_[o]) :
             \E i \in 1 .. Len(pending_[o][j]) :
               /\ pending_[o][j][i].id[1] = applied[o][1].id[1]
               /\ pending_[o][j][i].id[2] < applied[o][1].id[2]


\* A thread synchronizes HeldObj and may call get_logger on the other object
\* while it holds the guard; the other threads write to both objects.  Every
\* CPU keeps running the call it is in.
HeldObj == 246720

held_thread_step(t) ==
  \/ \E o \in Objects : get_logger_call(t, o)
  \/ \E o \in Objects : get_logger_call_held(t, o)
  \/ push_with_tsc(t, 0)
  \/ synchronize_call(t, HeldObj)
  \/ guard_release(t, HeldObj)
  \/ progress_step(t)

NextHeld == \E t \in Threads : held_thread_step(t)

SpecHeldFair ==
  /\ Init
  /\ [][NextHeld]_vars
  /\ \A t \in Threads : WF_vars(progress_step(t)) /\ SF_vars(get_logger_lock(t))

\* Thread t is inside get_logger and holds the sync lock of the object that
\* tags the way it wants.
evicting_own(t) ==
  /\ pc[t] \in {"gl_tag", "gl_lock"}
  /\ obj_[t][WayOf[self_[t]]] \notin {NoObj, self_[t]}
  /\ sync_lock_[obj_[t][WayOf[self_[t]]]] = t

\* C22: a get_logger(o2) called by a thread that holds the guard of
\* synchronize(o1), on a CPU where the way of o2 is tagged o1, returns.
C22_GetLoggerHeldReturns ==
  \A t \in Threads : evicting_own(t) ~> (pc[t] = "has_logger")

\* The caller has backed out of the eviction of the object whose sync lock it
\* holds itself.
C22_Witness ==
  \E t \in Threads :
    /\ evicting_own(t)
    /\ pc[t] = "gl_lock"
    /\ lock_[t][WayOf[self_[t]]] = NoThread

\* What the code does instead: the tag of the way and the holder of the sync
\* lock stay as they are, and the call goes round back_out.
C22_SpinsForever ==
  [][\A t \in Threads :
       evicting_own(t) => evicting_own(t)' /\ pc'[t] # "has_logger"]_vars
====
